---- MODULE Spec2Model ----
(***************************************************************************)
(* A model of puppeteer-cluster's scheduler: Cluster (queueJob, work,      *)
(* doWork, idle, waitForOne, close) and Worker (canHandle, handle).        *)
(*                                                                         *)
(* Every `await` of doWork is a position of a dispatch fiber.  A call to   *)
(* an async function runs its synchronous prefix at the call, so the pool  *)
(* queries (canHandle, canLaunchWorker, getWorker) are evaluated when they *)
(* are called and their result is consumed when the fiber resumes.         *)
(* Run-to-completion segments (everything between two awaits) are single   *)
(* actions.  The throttle of work() is kept as the armed/unarmed state of  *)
(* workCallTimeout; the timer fires at some later moment.                  *)
(*                                                                         *)
(* Queue, Job and Workers (the pool) are not among the sources; they are   *)
(* modelled from the specification's sections 3 and 4.2.                   *)
(***************************************************************************)
EXTENDS Integers, Sequences, FiniteSets, Bags, TLC

\* ------------------------------------------------------------------ bounds
MaxJobs == 2
MaxFibers == 2
MaxTime == 1
MaxIdle == 1
MaxCloses == 2
MaxWait == 1
MaxActive == 2

\* ------------------------------------------------------ program constants
BROWSER_INSTANCE_TRIES == 10

NoDelay == -1      \* delayUntil === undefined
NoJob == 0         \* undefined job / undefined worker
NoUrl == "none"    \* data without a url attribute
NoError == "none"  \* errorState === null

Urls == {"a/1"}
DataSet == Urls \cup {NoUrl}

\* Cluster options (DEFAULT_OPTIONS merged with the caller's options).
\* The defaults, and every admission filter and the retries switched on.
DefaultOptions ==
    [ maxConcurrency |-> 1, retryLimit |-> 0, retryDelay |-> 0,
      skipDuplicateUrls |-> FALSE, sameDomainDelay |-> 0, concurrency |-> 2 ]

FilterOptions ==
    [ maxConcurrency |-> 2, retryLimit |-> 1, retryDelay |-> 1,
      skipDuplicateUrls |-> TRUE, sameDomainDelay |-> 1, concurrency |-> 2 ]

OptionsSet == { DefaultOptions, FilterOptions }

VARIABLES
    options,              \* this.options
    now,                  \* Date.now()
    jobs,                 \* the Job objects created so far: [data, exec, tries]
    jobQueue,             \* this.jobQueue: sequence of [item, delayUntil]
    allTargetCount,       \* this.allTargetCount
    errorCount,           \* this.errorCount
    taskFunction,         \* this.taskFunction !== null
    idleResolvers,        \* number of resolvers pushed by idle()
    idleResolved,         \* number of idle() handles already resolved
    duplicateCheckUrls,   \* this.duplicateCheckUrls
    lastDomainAccesses,   \* this.lastDomainAccesses (NoDelay = no entry)
    workCallTimeout,      \* this.workCallTimeout !== null
    workers,              \* pool.workers: sequence of [activeJobs]
    workersStarting,      \* pool.starting
    fibers,               \* the doWork invocations in progress
    log,                  \* per job: what happened to it (observation only)
    isClosed,             \* this.isClosed
    workCallCleared,      \* clearTimeout was applied to the pending workCallTimeout
    poolCloses,           \* calls of this.workers.close()
    browserCloses,        \* calls of this.browser.close()
    waitForOneResolvers,  \* number of resolvers pushed by waitForOne(), pending
    waitForOneResolved,   \* the data the waitForOne() handles were resolved with
    call                  \* one call of a Worker method: its inputs and its result

vars == << options, now, jobs, jobQueue, allTargetCount, errorCount, taskFunction,
           idleResolvers, idleResolved, duplicateCheckUrls, lastDomainAccesses,
           workCallTimeout, workers, workersStarting,
           fibers, log, isClosed, workCallCleared, poolCloses, browserCloses,
           waitForOneResolvers, waitForOneResolved, call >>

closeVars == << isClosed, workCallCleared, poolCloses, browserCloses >>
waitVars == << waitForOneResolvers, waitForOneResolved >>

\* ------------------------------------------------------------------- Job
\* Job.getUrl(): data.url when data has a url attribute.
getUrl(j) == jobs[j].data

\* Job.getDomain(): the host part of the url.
getDomain(j) ==
    CASE jobs[j].data = "a/1" -> "a"
      [] OTHER -> NoUrl

Domains == {"a"}


\* ----------------------------------------------------------------- Queue
\* Queue.push(item, {delayUntil}): append an entry.
QueuePush(q, j, d) == Append(q, [item |-> j, delayUntil |-> d])

\* Queue.remove(item): remove the first matching entry (none: no change).
RECURSIVE QueueRemove(_, _)
QueueRemove(q, j) ==
    IF q = << >> THEN << >>
    ELSE IF Head(q).item = j THEN Tail(q)
    ELSE << Head(q) >> \o QueueRemove(Tail(q), j)

\* Queue.peek(): the first entry whose delayUntil is absent or <= now.
QueuePeek(q, t) ==
    LET ready == { i \in 1..Len(q) : q[i].delayUntil = NoDelay \/ q[i].delayUntil <= t }
    IN IF ready = {} THEN NoJob
       ELSE q[CHOOSE i \in ready : \A k \in ready : i <= k].item

\* Queue.size(): all entries, the delayed ones included.
QueueSize(q) == Len(q)

InQueue(j) == \E i \in 1..Len(jobQueue) : jobQueue[i].item = j

\* ---------------------------------------------------------------- Worker
\* WorkerInstance.canHandle?.(data): defined only by some providers.
\* 1 = shared page (always true), 2 = context per job (not defined).
ProviderCanHandle(w, j) ==
    IF options.concurrency = 1 THEN "true" ELSE "undefined"

\* What this.browser.canHandle?.(job.data) can evaluate to.
ProviderAnswers == {"true", "false", "undefined"}

\* Worker.canHandle(job), lines 55-59:
\*   this.browser.canHandle?.(job.data) || this.activeJobs.length === 0
canHandle(provider, activeJobsLength) ==
    provider = "true" \/ activeJobsLength = 0

\* Worker.canHandle(job) of worker w of the pool
WorkerCanHandle(w, j) ==
    canHandle(ProviderCanHandle(w, j), Len(workers[w].activeJobs))

\* activeJobs.splice(activeJobs.indexOf(job), 1); indexOf = -1 removes the last.
RECURSIVE SpliceJob(_, _)
SpliceJob(a, j) ==
    IF a = << >> THEN << >>
    ELSE IF \A i \in 1..Len(a) : a[i] # j THEN SubSeq(a, 1, Len(a) - 1)
    ELSE IF Head(a) = j THEN Tail(a)
    ELSE << Head(a) >> \o SpliceJob(Tail(a), j)

\* The provider's behaviour during one handle is the input: its first `fails`
\* calls of jobInstance throw, its repair call number `repairThrows` throws
\* (0: none), and its jobInstance.close() ends as `release` says.
FailCounts == {0, 1, BROWSER_INSTANCE_TRIES - 1, BROWSER_INSTANCE_TRIES}
RepairThrowsAt == {0, 1, BROWSER_INSTANCE_TRIES}
ReleaseOutcomes == {"closed", "closeThrows", "closeAndRepairThrow"}

\* What the task attempt leaves in errorState.
TaskOutcomes == {"return", "throw", "timeout"}
ErrorState(outcome) ==
    CASE outcome = "return" -> NoError
      [] outcome = "throw" -> "TaskError"
      [] outcome = "timeout" -> "TimeoutError"

\* handle, lines 73-87: the acquisition loop; `tries` is its counter.
RECURSIVE AcquireLoop(_, _, _)
AcquireLoop(tries, fails, repairThrows) ==
    IF tries + 1 > fails
    THEN [acquired |-> TRUE, calls |-> tries + 1, repairs |-> tries]
    ELSE IF tries + 1 = repairThrows
    THEN [acquired |-> FALSE, calls |-> tries + 1, repairs |-> tries + 1]
    ELSE IF tries + 1 >= BROWSER_INSTANCE_TRIES
    THEN [acquired |-> FALSE, calls |-> tries + 1, repairs |-> tries + 1]
    ELSE AcquireLoop(tries + 1, fails, repairThrows)

\* handle, lines 66-150, after the push on activeJobs: how the call ends.
\* "throw": an exception leaves handle (activeJobs keeps the job).
handle(fails, repairThrows, outcome, release) ==
    LET a == AcquireLoop(0, fails, repairThrows)
    IN IF ~a.acquired
       THEN [type |-> "throw", error |-> "AcquireError", calls |-> a.calls,
             repairs |-> a.repairs, tasks |-> 0, closes |-> 0]
       ELSE IF release = "closeAndRepairThrow"
       THEN [type |-> "throw", error |-> "RepairError", calls |-> a.calls,
             repairs |-> a.repairs + 1, tasks |-> 1, closes |-> 1]
       ELSE [type |-> IF ErrorState(outcome) # NoError THEN "error" ELSE "success",
             error |-> ErrorState(outcome), calls |-> a.calls,
             repairs |-> a.repairs + (IF release = "closeThrows" THEN 1 ELSE 0),
             tasks |-> 1, closes |-> 1]

\* handle, lines 73-87, as the calls it makes: "jobInstance" is a call of
\* this.browser.jobInstance, "acquired" its success, "repair" a call of
\* this.browser.repair, "throw" an exception leaving handle.
RECURSIVE AcquireTrace(_, _, _)
AcquireTrace(tries, fails, repairThrows) ==
    IF tries + 1 > fails
    THEN << "jobInstance", "acquired" >>
    ELSE IF tries + 1 = repairThrows
    THEN << "jobInstance", "repair", "throw" >>
    ELSE IF tries + 1 >= BROWSER_INSTANCE_TRIES
    THEN << "jobInstance", "repair", "throw" >>
    ELSE << "jobInstance", "repair" >> \o AcquireTrace(tries + 1, fails, repairThrows)

\* handle with the release inside the try block of the task: a task that
\* throws or times out skips jobInstance.close().
handleTraceNoClose(fails, repairThrows, outcome, release) ==
    LET a == AcquireTrace(0, fails, repairThrows)
    IN IF a[Len(a)] = "throw" THEN a
       ELSE IF outcome # "return"
       THEN a \o << "task", "taskEnded", "splice", "return" >>
       ELSE a \o << "task", "taskEnded", "close" >>
              \o (CASE release = "closed" -> << "splice", "return" >>
                    [] release = "closeThrows" -> << "repair", "splice", "return" >>
                    [] release = "closeAndRepairThrow" -> << "repair", "throw" >>)

\* handle, lines 68-149, as the sequence of calls it makes: "task" is the
\* call of the task function (line 107), "taskEnded" the end of the await of
\* timeoutExecute (return, throw or timeout, lines 105-123), "close" the call
\* of jobInstance.close() (line 128), "splice" line 138, "return" lines
\* 140-149.
handleTrace(fails, repairThrows, outcome, release) ==
    LET a == AcquireTrace(0, fails, repairThrows)
    IN IF a[Len(a)] = "throw" THEN a
       ELSE a \o << "task", "taskEnded", "close" >>
              \o (CASE release = "closed" -> << "splice", "return" >>
                    [] release = "closeThrows" -> << "repair", "splice", "return" >>
                    [] release = "closeAndRepairThrow" -> << "repair", "throw" >>)

\* The ways a call of handle can end, over the provider's and the task's
\* behaviours.
HandleEndings ==
    { [type |-> h.type, error |-> h.error] :
        h \in { handle(fails, repairThrows, outcome, release) :
                   fails \in FailCounts, repairThrows \in RepairThrowsAt,
                   outcome \in TaskOutcomes, release \in ReleaseOutcomes } }

\* ------------------------------------------------------------------ pool
\* Workers.getWorker(job): the first worker that can handle the job.
GetWorker(j) ==
    LET able == { w \in 1..Len(workers) : WorkerCanHandle(w, j) }
    IN IF able = {} THEN NoJob ELSE CHOOSE w \in able : \A v \in able : w <= v

\* Workers.canHandle(job)
PoolCanHandle(j) == GetWorker(j) # NoJob

\* Workers.canLaunchWorker(job).  workerCreationDelay is 0 (its default), so
\* the spacing of worker creations never forbids a launch.
CanLaunchWorker(j) ==
    Len(workers) + workersStarting < options.maxConcurrency

\* Workers.hasFreeCapacity(job)
HasFreeCapacity(j) == PoolCanHandle(j) \/ CanLaunchWorker(j)

\* Workers.isAnyJobActive()
IsAnyJobActive == \E w \in 1..Len(workers) : Len(workers[w].activeJobs) > 0

\* ---------------------------------------------------------------- fibers
\* A doWork invocation suspended at an await: where it is (pc), its job, the
\* boolean its pending pool query will deliver (r) and its worker.  `fibers`
\* is the bag of the suspended invocations.
NewFiber(pc, job, r, worker) == [pc |-> pc, job |-> job, r |-> r, worker |-> worker]

Suspended == BagToSet(fibers)
Start(new) == fibers (+) SetToBag({new})
Finish(fb) == fibers (-) SetToBag({fb})
Resume(fb, new) == (fibers (-) SetToBag({fb})) (+) SetToBag({new})

\* handle: calls of worker.handle; threw: calls that threw; noTask: "No task
\* function defined!"; resolve / reject: calls of the callbacks; taskerror:
\* events emitted; success / failed: terminal outcomes.
NewLog == [handle |-> 0, threw |-> 0, noTask |-> 0, resolve |-> 0, reject |-> 0,
           rejectedWith |-> NoError, taskerror |-> 0, success |-> 0, failed |-> 0]

\* No call of a Worker method is under observation.
NoCall == [op |-> "none", fails |-> 0, repairThrows |-> 0, outcome |-> "return",
           release |-> "closed", provider |-> "undefined", active |-> 0,
           done |-> FALSE, can |-> FALSE, result |-> handle(0, 0, "return", "closed"),
           trace |-> << >>]

\* The cluster after launch(options), options drawn from S.
InitOptions(S) ==
    /\ options \in S
    /\ now = 0
    /\ jobs = << >>
    /\ jobQueue = << >>
    /\ allTargetCount = 0
    /\ errorCount = 0
    /\ taskFunction = FALSE
    /\ idleResolvers = 0
    /\ idleResolved = 0
    /\ duplicateCheckUrls = {}
    /\ lastDomainAccesses = [d \in Domains |-> NoDelay]
    /\ workCallTimeout = FALSE
    /\ workers = << >>
    /\ workersStarting = 0
    /\ fibers = EmptyBag
    /\ log = << >>
    /\ isClosed = FALSE
    /\ workCallCleared = FALSE
    /\ poolCloses = 0
    /\ browserCloses = 0
    /\ waitForOneResolvers = 0
    /\ waitForOneResolved = << >>

Init ==
    /\ InitOptions(OptionsSet)
    /\ call = NoCall

\* ---------------------------------------------------------------- Cluster
\* work(): arm the timeout unless one is pending.
work(timeout) == IF timeout = FALSE THEN TRUE ELSE timeout

\* Mutant: the idle() handles are resolved whenever the queue is empty.
ShouldResolveIdleAlways == TRUE

\* doWork, line 335: the queue is empty; are the idle() handles resolved?
ShouldResolveIdle == ~IsAnyJobActive

\* doWork, lines 352-356
IsDuplicateUrl(j) ==
    /\ options.skipDuplicateUrls
    /\ getUrl(j) # NoUrl
    /\ getUrl(j) \in duplicateCheckUrls

\* doWork, lines 365-370
IsDomainDelayed(j) ==
    /\ options.sameDomainDelay # 0
    /\ getDomain(j) # NoUrl
    /\ lastDomainAccesses[getDomain(j)] # NoDelay
    /\ lastDomainAccesses[getDomain(j)] + options.sameDomainDelay > now

\* doWork, line 435, evaluated after job.addError
jobWillRetry(tries) == tries <= options.retryLimit

\* Job.addError(error): counts the failed attempt.
addError(job) == [job EXCEPT !.tries = job.tries + 1]

\* Mutant: the waitForOne() resolvers are dropped without being called.
ResolveWaitForOneDropped(data) == waitForOneResolved

\* doWork, lines 453-455: every pending waitForOne() resolver is called with
\* job.data.
ResolveWaitForOne(data) ==
    waitForOneResolved \o [i \in 1..waitForOneResolvers |-> data]

\* cluster.task(fn)
Task ==
    /\ UNCHANGED << closeVars, waitVars, call >>
    /\ taskFunction' = TRUE
    /\ UNCHANGED << options, now, jobs, jobQueue, allTargetCount, errorCount,
                    idleResolvers, idleResolved, duplicateCheckUrls, lastDomainAccesses,
                    workCallTimeout, workers, workersStarting,
                    fibers, log >>

\* queueJob(data, taskFunction, callbacks), called by queue() and execute()
QueueJob(data, exec) ==
    /\ UNCHANGED << closeVars, waitVars, call >>
    /\ Len(jobs) < MaxJobs
    /\ jobs' = Append(jobs, [data |-> data, exec |-> exec, task |-> FALSE, tries |-> 0])
    /\ log' = Append(log, NewLog)
    /\ allTargetCount' = allTargetCount + 1
    /\ jobQueue' = QueuePush(jobQueue, Len(jobs) + 1, NoDelay)
    /\ workCallTimeout' = work(workCallTimeout)
    /\ UNCHANGED << options, now, errorCount, taskFunction, idleResolvers, idleResolved,
                    duplicateCheckUrls, lastDomainAccesses, workers, workersStarting, fibers >>

\* idle()
Idle ==
    /\ UNCHANGED << closeVars, waitVars, call >>
    /\ idleResolvers < MaxIdle
    /\ idleResolvers' = idleResolvers + 1
    /\ UNCHANGED << options, now, jobs, jobQueue, allTargetCount, errorCount, taskFunction,
                    idleResolved, duplicateCheckUrls, lastDomainAccesses, workCallTimeout,
                    workers, workersStarting, fibers, log >>

\* The checkForWorkInterval callback: work().  close() clears the interval.
Poll ==
    /\ ~isClosed
    /\ UNCHANGED << closeVars, waitVars, call >>
    /\ workCallTimeout' = work(workCallTimeout)
    /\ UNCHANGED << options, now, jobs, jobQueue, allTargetCount, errorCount, taskFunction,
                    idleResolvers, idleResolved, duplicateCheckUrls, lastDomainAccesses,
                    workers, workersStarting, fibers, log >>

\* Time passes.
Tick ==
    /\ UNCHANGED << closeVars, waitVars, call >>
    /\ now < MaxTime
    /\ now' = now + 1
    /\ UNCHANGED << options, jobs, jobQueue, allTargetCount, errorCount, taskFunction,
                    idleResolvers, idleResolved, duplicateCheckUrls, lastDomainAccesses,
                    workCallTimeout, workers, workersStarting,
                    fibers, log >>

\* The workCallTimeout callback: workCallTimeout = null; doWork(), up to its
\* first await (the call of workers.canHandle).  A timeout cleared by close()
\* never fires.
DoWork ==
    /\ UNCHANGED << closeVars, waitVars, call >>
    /\ workCallTimeout /\ ~workCallCleared
    /\ BagCardinality(fibers) < MaxFibers
    /\ LET job == QueuePeek(jobQueue, now)
           empty == QueueSize(jobQueue) = 0
           skip == ~empty /\ job # NoJob /\ IsDuplicateUrl(job)
           delay == ~empty /\ job # NoJob /\ ~skip /\ IsDomainDelayed(job)
           go == ~empty /\ job # NoJob /\ ~skip /\ ~delay
       IN /\ idleResolved' = IF empty /\ ShouldResolveIdle THEN idleResolvers
                             ELSE idleResolved
          /\ jobQueue' =
                IF skip THEN QueueRemove(jobQueue, job)
                ELSE IF delay
                THEN QueuePush(QueueRemove(jobQueue, job), job,
                               lastDomainAccesses[getDomain(job)] + options.sameDomainDelay)
                ELSE jobQueue
          /\ workCallTimeout' = IF skip \/ delay THEN work(FALSE) ELSE FALSE
          /\ fibers' = IF go
                       THEN Start(NewFiber("canHandle", job, PoolCanHandle(job), NoJob))
                       ELSE fibers
    /\ UNCHANGED << options, now, jobs, allTargetCount, errorCount, taskFunction,
                    idleResolvers, duplicateCheckUrls, lastDomainAccesses, workers,
                    workersStarting, log >>

\* doWork resumes from `await this.workers.canHandle(job)` and calls
\* canLaunchWorker (no worker available) or getWorker.
CanHandleDone(fb) ==
    /\ UNCHANGED << closeVars, waitVars, call >>
    /\ fb.pc = "canHandle"
    /\ fibers' = Resume(fb,
                    IF fb.r
                    THEN NewFiber("getWorker", fb.job, FALSE, GetWorker(fb.job))
                    ELSE NewFiber("canLaunchWorker", fb.job, CanLaunchWorker(fb.job), NoJob))
    /\ UNCHANGED << options, now, jobs, jobQueue, allTargetCount, errorCount, taskFunction,
                    idleResolvers, idleResolved, duplicateCheckUrls, lastDomainAccesses,
                    workCallTimeout, workers, workersStarting,
                    log >>

\* doWork resumes from `await this.workers.canLaunchWorker(job)`; when true it
\* calls launchWorker, which counts the worker as starting before its first await.
CanLaunchWorkerDone(fb) ==
    /\ UNCHANGED << closeVars, waitVars, call >>
    /\ fb.pc = "canLaunchWorker"
    /\ IF fb.r
       THEN /\ workersStarting' = workersStarting + 1
            /\ fibers' = Resume(fb, NewFiber("launchWorker", fb.job, FALSE, NoJob))
       ELSE /\ fibers' = Finish(fb)
            /\ UNCHANGED workersStarting
    /\ UNCHANGED << options, now, jobs, jobQueue, allTargetCount, errorCount, taskFunction,
                    idleResolvers, idleResolved, duplicateCheckUrls, lastDomainAccesses,
                    workCallTimeout, workers, log >>

\* launchWorker completes: the worker joins the pool; doWork calls work() and returns.
LaunchWorkerDone(fb) ==
    /\ UNCHANGED << closeVars, waitVars, call >>
    /\ fb.pc = "launchWorker"
    /\ workers' = Append(workers, [activeJobs |-> << >>])
    /\ workersStarting' = workersStarting - 1
    /\ workCallTimeout' = work(workCallTimeout)
    /\ fibers' = Finish(fb)
    /\ UNCHANGED << options, now, jobs, jobQueue, allTargetCount, errorCount, taskFunction,
                    idleResolvers, idleResolved, duplicateCheckUrls, lastDomainAccesses, log >>

\* doWork resumes from `await this.workers.getWorker(job)`: no worker, return;
\* otherwise commit the job (lines 396-404), scheduleNextWork(), pick the task
\* function and call worker.handle, which pushes the job on activeJobs.
GetWorkerDone(fb) ==
    /\ UNCHANGED << closeVars, waitVars, call >>
    /\ fb.pc = "getWorker"
    /\ LET job == fb.job
           w == fb.worker
           q == QueueRemove(jobQueue, job)
           hasFunction == jobs[job].task \/ taskFunction
       IN IF w = NoJob
          THEN /\ fibers' = Finish(fb)
               /\ UNCHANGED << jobQueue, duplicateCheckUrls, lastDomainAccesses,
                               workCallTimeout, workers, log >>
          ELSE /\ jobQueue' = q
               /\ duplicateCheckUrls' =
                     IF options.skipDuplicateUrls /\ getUrl(job) # NoUrl
                     THEN duplicateCheckUrls \cup {getUrl(job)}
                     ELSE duplicateCheckUrls
               /\ lastDomainAccesses' =
                     IF options.sameDomainDelay # 0 /\ getDomain(job) # NoUrl
                     THEN [lastDomainAccesses EXCEPT ![getDomain(job)] = now]
                     ELSE lastDomainAccesses
               /\ workCallTimeout' = IF HasFreeCapacity(QueuePeek(q, now))
                                     THEN work(workCallTimeout)
                                     ELSE workCallTimeout
               /\ IF hasFunction
                  THEN /\ workers' = [workers EXCEPT ![w].activeJobs = Append(@, job)]
                       /\ fibers' = Resume(fb, NewFiber("handle", job, FALSE, w))
                       /\ log' = [log EXCEPT ![job].handle = @ + 1]
                  ELSE /\ log' = [log EXCEPT ![job].noTask = @ + 1]
                       /\ fibers' = Finish(fb)
                       /\ UNCHANGED workers
    /\ UNCHANGED << options, now, jobs, allTargetCount, errorCount, taskFunction,
                    idleResolvers, idleResolved, workersStarting >>

\* worker.handle ends (lines 68-150) and doWork, lines 417-458, reports the
\* result: reject / taskerror and retry / resolve, then work().  When handle
\* throws, doWork swallows the exception and then reads result.type of null,
\* which rejects doWork; the job stays in activeJobs.
HandleDone(fb) ==
    /\ UNCHANGED << closeVars, call >>
    /\ fb.pc = "handle"
    /\ \E result \in HandleEndings :
          LET job == fb.job
              isError == result.type = "error"
              exec == jobs[job].exec
              counted == IF isError /\ ~exec THEN addError(jobs[job]) ELSE jobs[job]
              retry == isError /\ ~exec /\ jobWillRetry(counted.tries)
          IN IF result.type = "throw"
             THEN /\ log' = [log EXCEPT ![job].threw = @ + 1]
                  /\ fibers' = Finish(fb)
                  /\ UNCHANGED << jobs, jobQueue, errorCount, workCallTimeout, workers,
                                  waitVars >>
             ELSE /\ workers' = [workers EXCEPT
                                   ![fb.worker].activeJobs = SpliceJob(@, job)]
                  /\ jobs' = [jobs EXCEPT ![job] = counted]
                  /\ jobQueue' = IF retry
                                 THEN QueuePush(jobQueue, job,
                                                IF options.retryDelay # 0
                                                THEN now + options.retryDelay
                                                ELSE NoDelay)
                                 ELSE jobQueue
                  /\ errorCount' = IF isError /\ (exec \/ ~retry)
                                   THEN errorCount + 1
                                   ELSE errorCount
                  /\ log' = [log EXCEPT ![job] =
                               IF isError /\ exec
                               THEN [@ EXCEPT !.reject = @ + 1, !.rejectedWith = result.error]
                               ELSE IF isError
                               THEN [@ EXCEPT !.taskerror = @ + 1,
                                              !.failed = IF retry THEN @ ELSE @ + 1]
                               ELSE IF exec
                               THEN [@ EXCEPT !.resolve = @ + 1, !.success = @ + 1]
                               ELSE [@ EXCEPT !.success = @ + 1]]
                  /\ waitForOneResolved' = ResolveWaitForOne(jobs[job].data)
                  /\ waitForOneResolvers' = 0
                  /\ workCallTimeout' = work(workCallTimeout)
                  /\ fibers' = Finish(fb)
    /\ UNCHANGED << options, now, allTargetCount, taskFunction, idleResolvers,
                    idleResolved, duplicateCheckUrls, lastDomainAccesses,
                    workersStarting >>

Next ==
    \/ Task
    \/ \E data \in DataSet, exec \in BOOLEAN : QueueJob(data, exec)
    \/ Idle
    \/ Poll
    \/ Tick
    \/ DoWork
    \/ \E fb \in Suspended : CanHandleDone(fb)
    \/ \E fb \in Suspended : CanLaunchWorkerDone(fb)
    \/ \E fb \in Suspended : LaunchWorkerDone(fb)
    \/ \E fb \in Suspended : GetWorkerDone(fb)
    \/ \E fb \in Suspended : HandleDone(fb)

Spec == Init /\ [][Next]_vars

\* ------------------------------------------------------------------ close
\* close(), lines 534-541, up to its first await: isClosed = true, the
\* interval and the pending timeout are cleared (workCallTimeout keeps its
\* value), and this.workers.close() is called.
Close ==
    /\ poolCloses < MaxCloses
    /\ isClosed' = TRUE
    /\ workCallCleared' = (workCallCleared \/ workCallTimeout)
    /\ poolCloses' = poolCloses + 1
    /\ UNCHANGED << options, now, jobs, jobQueue, allTargetCount, errorCount, taskFunction,
                    idleResolvers, idleResolved, duplicateCheckUrls, lastDomainAccesses,
                    workCallTimeout, workers, workersStarting, fibers, log,
                    browserCloses, waitVars, call >>

\* close() resumes from `await this.workers.close()`, which waits for the
\* active jobs, and calls this.browser.close() (lines 543-560).
CloseDone ==
    /\ browserCloses < poolCloses
    /\ ~IsAnyJobActive
    /\ browserCloses' = browserCloses + 1
    /\ UNCHANGED << options, now, jobs, jobQueue, allTargetCount, errorCount, taskFunction,
                    idleResolvers, idleResolved, duplicateCheckUrls, lastDomainAccesses,
                    workCallTimeout, workers, workersStarting, fibers, log,
                    isClosed, workCallCleared, poolCloses, waitVars, call >>

InitClose ==
    /\ InitOptions({DefaultOptions})
    /\ call = NoCall

NextClose ==
    \/ Task
    \/ \E data \in DataSet, exec \in BOOLEAN : QueueJob(data, exec)
    \/ Close
    \/ CloseDone
    \/ Poll
    \/ Tick
    \/ DoWork
    \/ \E fb \in Suspended : CanHandleDone(fb)
    \/ \E fb \in Suspended : CanLaunchWorkerDone(fb)
    \/ \E fb \in Suspended : LaunchWorkerDone(fb)
    \/ \E fb \in Suspended : GetWorkerDone(fb)
    \/ \E fb \in Suspended : HandleDone(fb)

\* The cluster with a caller that calls close() (and never idle()).
SpecClose == InitClose /\ [][NextClose]_vars

\* ----------------------------------------------------- Worker, by itself
\* One call of Worker.handle or Worker.canHandle under every behaviour of the
\* provider and of the task; `call` holds the inputs and then the result.
HandleInputs ==
    [ op : {"handle"}, fails : 0..(BROWSER_INSTANCE_TRIES + 1),
      repairThrows : 0..BROWSER_INSTANCE_TRIES, outcome : TaskOutcomes,
      release : ReleaseOutcomes, provider : {NoCall.provider}, active : {0},
      done : {FALSE}, can : {FALSE}, result : {NoCall.result},
      trace : {NoCall.trace} ]

CanHandleInputs ==
    [ op : {"canHandle"}, fails : {0}, repairThrows : {0}, outcome : {NoCall.outcome},
      release : {NoCall.release}, provider : ProviderAnswers, active : 0..MaxActive,
      done : {FALSE}, can : {FALSE}, result : {NoCall.result},
      trace : {NoCall.trace} ]

InitWorker ==
    /\ InitOptions({DefaultOptions})
    /\ call \in HandleInputs \cup CanHandleInputs

\* worker.handle(task, job, timeout) runs to its end.
HandleCall ==
    /\ call.op = "handle" /\ ~call.done
    /\ call' = [call EXCEPT !.done = TRUE,
                            !.result = handle(call.fails, call.repairThrows,
                                              call.outcome, call.release),
                            !.trace = handleTrace(call.fails, call.repairThrows,
                                                  call.outcome, call.release)]
    /\ UNCHANGED << options, now, jobs, jobQueue, allTargetCount, errorCount, taskFunction,
                    idleResolvers, idleResolved, duplicateCheckUrls, lastDomainAccesses,
                    workCallTimeout, workers, workersStarting, fibers, log,
                    closeVars, waitVars >>

\* worker.canHandle(job)
CanHandleCall ==
    /\ call.op = "canHandle" /\ ~call.done
    /\ call' = [call EXCEPT !.done = TRUE,
                            !.can = canHandle(call.provider, call.active)]
    /\ UNCHANGED << options, now, jobs, jobQueue, allTargetCount, errorCount, taskFunction,
                    idleResolvers, idleResolved, duplicateCheckUrls, lastDomainAccesses,
                    workCallTimeout, workers, workersStarting, fibers, log,
                    closeVars, waitVars >>

NextWorker ==
    \/ HandleCall
    \/ CanHandleCall

SpecWorker == InitWorker /\ [][NextWorker]_vars

\* ------------------------------------------------------------ waitForOne
\* waitForOne(), lines 530-532: push a resolver.
WaitForOne ==
    /\ waitForOneResolvers + Len(waitForOneResolved) < MaxWait
    /\ waitForOneResolvers' = waitForOneResolvers + 1
    /\ UNCHANGED << options, now, jobs, jobQueue, allTargetCount, errorCount, taskFunction,
                    idleResolvers, idleResolved, duplicateCheckUrls, lastDomainAccesses,
                    workCallTimeout, workers, workersStarting, fibers, log,
                    closeVars, waitForOneResolved, call >>

InitWait ==
    /\ InitOptions({FilterOptions})
    /\ call = NoCall

NextWait ==
    \/ Task
    \/ \E data \in DataSet, exec \in BOOLEAN : QueueJob(data, exec)
    \/ WaitForOne
    \/ Poll
    \/ Tick
    \/ DoWork
    \/ \E fb \in Suspended : CanHandleDone(fb)
    \/ \E fb \in Suspended : CanLaunchWorkerDone(fb)
    \/ \E fb \in Suspended : LaunchWorkerDone(fb)
    \/ \E fb \in Suspended : GetWorkerDone(fb)
    \/ \E fb \in Suspended : HandleDone(fb)

\* The cluster with a caller that calls waitForOne() (and never idle()).
SpecWait == InitWait /\ [][NextWait]_vars

\* ================================================================ claims
JobIds == 1..Len(jobs)

\* Some doWork invocation is working on job j.
Held(j) == \E fb \in Suspended : fb.job = j

Settled(j) == log[j].resolve + log[j].reject >= 1

RECURSIVE SumHandle(_)
SumHandle(S) ==
    IF S = {} THEN 0
    ELSE LET j == CHOOSE x \in S : TRUE IN log[j].handle + SumHandle(S \ {j})

\* C1: every execute() call is eventually settled.  Stated on finite runs: an
\* execute job (with a task function) that is neither queued nor being worked
\* on by a dispatch has had resolve or reject called.
C1_ExecuteSettled ==
    \A j \in JobIds :
        (jobs[j].exec /\ log[j].noTask = 0) => (InQueue(j) \/ Held(j) \/ Settled(j))

\* C2: for every execute job, resolve and reject are called at most once in
\* total.
C2_CallbacksAtMostOnce ==
    \A j \in JobIds : log[j].resolve + log[j].reject <= 1

\* C3: Worker.handle never throws: every call ends with a WorkResult.
C3_HandleNeverThrows ==
    \A j \in JobIds : log[j].threw = 0

\* C4: the live workers plus the workers being created never exceed
\* maxConcurrency.
C4_WorkerCap ==
    Len(workers) + workersStarting <= options.maxConcurrency

\* C5: an execute job is attempted exactly once, whatever retryLimit is: an
\* error result rejects it with that error, is counted once in errorCount,
\* and causes no retry and no taskerror event.
C5_ExecuteSingleAttempt ==
    \A j \in JobIds :
        jobs[j].exec =>
            /\ log[j].handle <= 1
            /\ log[j].taskerror = 0
            /\ jobs[j].tries = 0
            /\ (log[j].reject >= 1 => /\ ~InQueue(j)
                                      /\ log[j].rejectedWith # NoError
                                      /\ errorCount >= 1)

\* C6: a queue() job that reached a terminal outcome was attempted at least
\* once and at most retryLimit + 1 times, and its tries counter is then
\* between 1 and retryLimit + 1.
C6_TriesBounds ==
    \A j \in JobIds :
        (~jobs[j].exec /\ log[j].success + log[j].failed >= 1) =>
            /\ 1 <= log[j].handle /\ log[j].handle <= options.retryLimit + 1
            /\ 1 <= jobs[j].tries /\ jobs[j].tries <= options.retryLimit + 1

\* C7: a queue() job pushed back for a retry leaves the queue only by being
\* handed to a worker: it is attempted again.
C7_RetryIsAttempted ==
    [][\A j \in JobIds :
          (~jobs[j].exec /\ jobs[j].tries >= 1 /\ InQueue(j)
              /\ ~(\E i \in 1..Len(jobQueue') : jobQueue'[i].item = j))
          => log'[j].handle = log[j].handle + 1]_vars

\* C8: with skipDuplicateUrls, a url is handed to worker.handle at most once.
C8_UrlDispatchedOnce ==
    options.skipDuplicateUrls =>
        \A u \in Urls : SumHandle({ j \in JobIds : getUrl(j) = u }) <= 1

\* C9: with sameDomainDelay = D > 0, a job is handed to a worker no sooner
\* than D after the previous dispatch of a job of its domain.
C9_SameDomainSpacing ==
    [][\A j \in JobIds :
          (/\ log'[j].handle = log[j].handle + 1
           /\ options.sameDomainDelay > 0
           /\ getDomain(j) # NoUrl
           /\ lastDomainAccesses[getDomain(j)] # NoDelay)
          => now >= lastDomainAccesses[getDomain(j)] + options.sameDomainDelay]_vars

\* C10: an idle() handle is resolved only in a state where the queue holds no
\* entry, delayed ones included, and no worker has an active job.
C10_IdleOnlyWhenIdle ==
    [][idleResolved' > idleResolved =>
          /\ QueueSize(jobQueue) = 0 /\ QueueSize(jobQueue') = 0
          /\ ~IsAnyJobActive
          /\ \A w \in 1..Len(workers') : Len(workers'[w].activeJobs) = 0]_vars

\* C10 witness: an idle() handle was resolved after a job had run.
C10_Witness ==
    /\ idleResolved >= 1
    /\ \E j \in JobIds : log[j].success >= 1

\* C11: every idle() handle is eventually resolved once nothing is left to do,
\* also after a job whose acquisition failed on all tries.  Stated on finite
\* runs: when the queue is empty and no dispatch is in progress, no worker
\* holds an active job, so the next doWork resolves the idle() handles.
C11_IdleEventuallyResolved ==
    (QueueSize(jobQueue) = 0 /\ fibers = EmptyBag) => ~IsAnyJobActive

RECURSIVE SumActive(_)
SumActive(ws) ==
    IF ws = << >> THEN 0 ELSE Len(Head(ws).activeJobs) + SumActive(Tail(ws))

\* C12: allTargetCount = jobs that succeeded + errorCount + jobs in flight on
\* workers + jobs in the queue, in every reachable state.
C12_TargetAccounting ==
    allTargetCount = Cardinality({ j \in JobIds : log[j].success >= 1 })
                     + errorCount + SumActive(workers) + QueueSize(jobQueue)

\* C13: once close() has been called, no job is admitted to the queue, no
\* dispatch iteration runs (no work timeout fires) and no job is handed to a
\* worker.
C13_ClosedStopsDispatch ==
    [][isClosed =>
          /\ allTargetCount' = allTargetCount
          /\ Len(jobs') = Len(jobs)
          /\ ~(workCallTimeout /\ ~workCallTimeout')
          /\ \A j \in JobIds : log'[j].handle = log[j].handle]_vars

\* C14: close() is idempotent: after the first call, workers.close() and
\* browser.close() are not called again.
C14_CloseIdempotent ==
    isClosed => (poolCloses = 1 /\ browserCloses <= 1)

\* The positions of job j in the queue.
QueuePositions(j) == { i \in 1..Len(jobQueue) : jobQueue[i].item = j }

\* C15: jobs without delayUntil are dispatched in the order in which they
\* were enqueued: a job handed to a worker is in the queue at that moment and
\* no entry without delayUntil is ahead of it.
C15_FifoDispatch ==
    [][\A j \in JobIds :
          log'[j].handle = log[j].handle + 1 =>
              /\ QueuePositions(j) # {}
              /\ \A i \in QueuePositions(j) : \A k \in 1..(i - 1) :
                    jobQueue[k].delayUntil # NoDelay]_vars

\* An attempt of job j completes with a result in this step.
AttemptCompletes(j) ==
    log'[j].success + log'[j].taskerror + log'[j].reject
        > log[j].success + log[j].taskerror + log[j].reject

\* C16: when an attempt of a job completes with a success or an error result
\* (a retried error included), every pending waitForOne() handle is resolved
\* with that job's data and no waiter is left; handles are resolved by
\* nothing else.
C16_WaitForOneResolved ==
    [][/\ \A j \in JobIds :
             AttemptCompletes(j) =>
                 /\ waitForOneResolvers' = 0
                 /\ waitForOneResolved' =
                       waitForOneResolved \o [i \in 1..waitForOneResolvers |-> jobs[j].data]
       /\ waitForOneResolved' # waitForOneResolved =>
             \E j \in JobIds : AttemptCompletes(j)]_vars

\* C16 witness: a waitForOne() handle was resolved by the completion of an
\* attempt that failed and is being retried, the only attempt completed so far.
C16_Witness ==
    /\ Len(waitForOneResolved) = 1
    /\ \E j \in JobIds :
          /\ log[j].taskerror = 1 /\ log[j].failed = 0 /\ log[j].success = 0
          /\ InQueue(j)
          /\ waitForOneResolved[1] = jobs[j].data
          /\ \A k \in JobIds \ {j} :
                log[k].success + log[k].taskerror + log[k].reject = 0

\* A call of handle has ended.
Handled == call.op = "handle" /\ call.done

\* C17: a release failure does not fail the job: when the task returned
\* normally and jobInstance.close() throws, repair() is called once more and
\* handle returns a success result.
C17_ReleaseFailureIsSuccess ==
    (Handled /\ call.result.tasks = 1 /\ call.outcome = "return"
        /\ call.release # "closed")
    => /\ call.result.type = "success"
       /\ call.result.repairs = call.fails + 1

\* C18: when jobInstance fails on all BROWSER_INSTANCE_TRIES tries (repair
\* succeeding), handle yields an error result.
C18_AcquireFailureIsError ==
    (Handled /\ call.fails >= BROWSER_INSTANCE_TRIES /\ call.repairThrows = 0)
    => call.result.type = "error"

\* C19: jobInstance is called at most 10 times, repair once after each failed
\* call; when jobInstance fails k <= 9 times and then succeeds, the task is
\* executed exactly once and the job's result is the task's result.
C19_AcquireRetries ==
    Handled =>
        LET a == AcquireLoop(0, call.fails, call.repairThrows)
        IN /\ a.calls <= BROWSER_INSTANCE_TRIES
           /\ a.repairs = IF a.acquired THEN a.calls - 1 ELSE a.calls
           /\ (a.acquired /\ call.fails <= BROWSER_INSTANCE_TRIES - 1) =>
                 /\ a.calls = call.fails + 1
                 /\ call.result.tasks = 1
                 /\ call.result.type =
                       IF call.outcome = "return" THEN "success" ELSE "error"
                 /\ call.result.error = ErrorState(call.outcome)

\* C20: when the provider defines canHandle, Worker.canHandle returns the
\* provider's answer; otherwise it returns activeJobs.length === 0.
C20_CanHandleDelegates ==
    (call.op = "canHandle" /\ call.done) =>
        call.can = IF call.provider = "undefined"
                   THEN call.active = 0
                   ELSE call.provider = "true"

\* C21: dispatch iterations are serialized: at no time are two executions of
\* doWork in progress (suspended at an await) at once.
C21_DispatchSerialized ==
    BagCardinality(fibers) <= 1

RECURSIVE SumCopies(_)
SumCopies(S) ==
    IF S = {} THEN 0
    ELSE LET fb == CHOOSE x \in S : TRUE
         IN CopiesIn(fb, fibers) + SumCopies(S \ {fb})

\* The attempts of job j that are still running.
Running(j) == SumCopies({ fb \in Suspended : fb.pc = "handle" /\ fb.job = j })

\* C22: every failed attempt of a queue() job emits exactly one taskerror;
\* the job is pushed back iff willRetry = (tries <= retryLimit), errorCount is
\* incremented iff not, so errorCount is the number of jobs that terminally
\* failed.
C22_TaskErrorAccounting ==
    /\ \A j \in JobIds :
          ~jobs[j].exec =>
              /\ log[j].handle = log[j].success + log[j].taskerror + Running(j)
              /\ log[j].failed >= 1 => jobs[j].tries > options.retryLimit
    /\ errorCount = Cardinality({ j \in JobIds : log[j].failed + log[j].reject >= 1 })

\* How many times job j occurs in the sequence a.
RECURSIVE Occurrences(_, _)
Occurrences(a, j) ==
    IF a = << >> THEN 0
    ELSE (IF Head(a) = j THEN 1 ELSE 0) + Occurrences(Tail(a), j)

\* How many times job j occurs in the activeJobs of the workers ws.
RECURSIVE ActiveCopies(_, _)
ActiveCopies(ws, j) ==
    IF ws = << >> THEN 0
    ELSE Occurrences(Head(ws).activeJobs, j) + ActiveCopies(Tail(ws), j)

\* C23: no job is handed to worker.handle twice for one dequeue: a job is
\* handled once, plus once for every time it was pushed back for a retry, and
\* it is never in the activeJobs of two workers, nor twice in those of one.
C23_NoDoubleHandOver ==
    \A j \in JobIds :
        /\ log[j].handle <= 1 + (log[j].taskerror - log[j].failed)
        /\ ActiveCopies(workers, j) <= 1

\* C24: with a provider that defines no canHandle, the activeJobs of each
\* worker hold at most one job, under any interleaving of dispatches.
C24_WorkerExclusive ==
    options.concurrency # 1 =>
        \A w \in 1..Len(workers) : Len(workers[w].activeJobs) <= 1

\* C25: every job that handle appended to activeJobs is removed again on
\* every exit path of handle.  Stated on finite runs: a job is in activeJobs
\* exactly as often as calls of handle for it are still running.
C25_ActiveJobsRemoved ==
    \A j \in JobIds : ActiveCopies(workers, j) = Running(j)

\* How many times the call e occurs in the trace t.
Count(t, e) == Cardinality({ i \in 1..Len(t) : t[i] = e })

\* C26: every JobInstance that handle acquired is released exactly once:
\* jobInstance.close() is called once, after the task attempt has ended
\* (return, throw or timeout) and before handle is left, and the task is
\* never invoked without an acquired JobInstance.
C26_ReleasedOnce ==
    Handled =>
        LET t == call.trace
        IN /\ Count(t, "acquired") <= 1
           /\ Count(t, "close") = Count(t, "acquired")
           /\ Count(t, "task") = Count(t, "acquired")
           /\ \A i \in 1..Len(t) :
                 /\ t[i] = "task" => \E k \in 1..(i - 1) : t[k] = "acquired"
                 /\ t[i] = "close" =>
                       /\ \E k \in 1..(i - 1) : t[k] = "taskEnded"
                       /\ \E k \in (i + 1)..Len(t) : t[k] \in {"return", "throw"}

\* A call of handle whose first acquisition failed, whose task timed out and
\* whose JobInstance was then released.
C26_Witness ==
    /\ Handled
    /\ call.fails >= 1
    /\ call.outcome = "timeout"
    /\ Count(call.trace, "acquired") = 1
    /\ Count(call.trace, "close") = 1
====
